---- MODULE Spec2Model ----
(***************************************************************************)
(* Audio ingestion, windowing and playback-state arbitration of            *)
(* metahuman-streams: BaseASR (src/baseasr.py) and BaseReal                *)
(* (src/basereal.py).                                                      *)
(*                                                                         *)
(* Three paths run concurrently and share BaseReal's state without a lock: *)
(*   - the processing path: warm_up, then run_step, each pulling chunks    *)
(*     through get_audio_frame / get_audio_stream;                         *)
(*   - the control path: set_curr_state, init_customindex, pause_talk;     *)
(*   - the producer (put_audio_frame) and the two consumers                *)
(*     (get_audio_out, get_next_feat).                                     *)
(* Every step below is one read or one write of shared state, which is the *)
(* granularity at which CPython threads interleave.                        *)
(*                                                                         *)
(* Spec:       a BaseASR whose parent is a BaseReal, strides 1 and 1,      *)
(*             batch size 1, the paths interleaving freely.                *)
(* SpecSerial: the same program, where a call of get_audio_frame and a     *)
(*             control command never overlap.                              *)
(* SpecWin:    a BaseASR constructed with parent=None, for every left and  *)
(*             right stride up to MaxStride and batch size up to MaxBatch. *)
(* SpecLoad:   BaseReal.__loadcustom over every list of at most MaxItems   *)
(*             items of opt.customopt.                                     *)
(* SpecMirror: BaseReal.mirror_index applied to a play index that counts   *)
(*             up from 0, for every size up to MaxSize.                    *)
(*                                                                         *)
(* An audio chunk is the record [src, from, len]: len samples taken at     *)
(* offset from of source src (0: a pushed chunk, numbered from; 1: zeros;  *)
(* id > 1: the custom clip id).                                            *)
(***************************************************************************)
EXTENDS Integers, Sequences, FiniteSets, TLC

\* ------------------------------------------------------------- constants
SampleRate == 16000
Fps == 50
FeatCapacity == 2

\* --------------------------------------------------------------- bounds
MaxPuts == 1
MaxCmds == 2
MaxSteps == 2
MaxStride == 2
MaxBatch == 1
MaxItems == 2
MaxSize == 5
MaxIndex == 24

\* ------------------------------------------------------------ the inputs
\* opt.customopt names the sources 2 and 3; the control path may also name 4.
AudioTypes == {0, 1, 2, 3, 4}
\* the clips: source 2 has one chunk and a half, source 3 exactly one chunk.
Clips == (2 :> 500) @@ (3 :> 320)

VARIABLES
  parent,              \* BaseASR.parent: TRUE for a BaseReal, FALSE for None
  curr_state,          \* BaseReal.curr_state
  custom_audio_cycle,  \* id -> length of the clip's sample buffer
  custom_audio_index,  \* dict id -> audio cursor, as <<key, value>> pairs in insertion order
  custom_index,        \* dict id -> image cursor, same representation
  custom_img_cycle,    \* dict id -> number of decoded images, same representation
  custom_opt,          \* dict id -> the item of opt.customopt, same representation
  customopt,           \* opt.customopt, the list of items to load
  nitem,               \* how many items of customopt __loadcustom has been through
  play_size, play_index, \* arguments of the renderer's call of mirror_index
  mirrored,            \* what that call returned
  queue,               \* BaseASR.queue
  output_queue,        \* BaseASR.output_queue
  feat_queue,          \* BaseASR.feat_queue
  frames,              \* BaseASR.frames
  stride_left_size, stride_right_size, batch_size,
  pc,                  \* position of the processing path
  caller,              \* "wu" or "rs": who called get_audio_frame
  i,                   \* loop counter of warm_up / run_step
  frame, frame_type,   \* locals of get_audio_frame
  audiotype, idx, tmp, \* locals of get_audio_stream
  cpc, cmd,            \* position and arguments of the control path
  nput, ncmd, nstep,   \* how many puts, commands, steps have been issued
  call,                \* history: what the call of get_audio_frame in flight has seen
  pulled,              \* history: every (frame, type) pair get_audio_frame returned
  rendered,            \* history: every pair get_audio_out handed to the renderer
  emitted,             \* history: every window put on feat_queue
  run,                 \* history: the custom playback being followed, and its retrievals
  sched                \* "threads": the paths interleave freely; "serial": calls do not overlap

vars == <<parent, curr_state, custom_audio_cycle, custom_audio_index, custom_index,
          custom_img_cycle, custom_opt, customopt, nitem, play_size, play_index, mirrored, queue,
          output_queue, feat_queue, frames, stride_left_size, stride_right_size,
          batch_size, pc, caller, i, frame, frame_type, audiotype, idx, tmp, cpc, cmd,
          nput, ncmd, nstep, call, pulled, rendered, emitted, run, sched>>

shared == <<curr_state, custom_audio_index, custom_index>>
assets == <<custom_img_cycle, custom_opt, customopt, nitem>>
mirror == <<play_size, play_index, mirrored>>
config == <<parent, custom_audio_cycle, stride_left_size, stride_right_size, batch_size, sched,
            assets, mirror>>
locals == <<frame, frame_type, audiotype, idx, tmp>>
procv  == <<pc, caller, i, frames, nstep, pulled>>
ctlv   == <<cpc, cmd, ncmd>>

\* ------------------------------------------------------------- helpers
chunk == SampleRate \div Fps

Min(a, b) == IF a < b THEN a ELSE b
Max(a, b) == IF a > b THEN a ELSE b

\* a Python dict, kept as its <<key, value>> pairs in insertion order
DictKeys(d) == {d[n][1] : n \in 1..Len(d)}
DictHas(d, k) == k \in DictKeys(d)
DictGet(d, k) == d[CHOOSE n \in 1..Len(d) : d[n][1] = k][2]
DictSet(d, k, v) ==
  IF DictHas(d, k)
  THEN [n \in 1..Len(d) |-> IF d[n][1] = k THEN <<k, v>> ELSE d[n]]
  ELSE Append(d, <<k, v>>)

\* len(a[lo:lo+chunk]) for a buffer of L samples
SliceLen(L, lo) == Max(0, Min(L, lo + chunk) - Min(L, lo))

NoChunk == [src |-> -1, from |-> 0, len |-> 0]
Zeros == [src |-> 1, from |-> 0, len |-> chunk]
Pushed(n) == [src |-> 0, from |-> n, len |-> chunk]
NoCall == [timeout |-> FALSE, obs |-> -1, disturbed |-> FALSE]
NoRun == [id |-> 0, n |-> 0]

GafPcs == {"gaf_get", "gaf_pop", "gaf_check", "gaf_arg", "gas_idx", "gas_inc_r", "gas_inc_w",
           "gas_test", "gas_sil", "gaf_tag", "gaf_ret"}
InCall == pc \in GafPcs

\* The scheduler.  Under "threads" any path may take the next step.  Under "serial" a call
\* of get_audio_frame and a control command never overlap: each runs to its end first.
ProcMayStep == sched = "threads" \/ cpc = "idle"
EnvMayStep == sched = "threads" \/ ~InCall
QueueMayStep == sched = "threads" \/ (~InCall /\ cpc = "idle")

\* ------------------------------------------ the items of opt.customopt
\* imgpath: "frames" is a directory of the images 1.png and 2.png, "missing" does not
\* exist, "named" holds an image whose file name is no number.  audiopath: "clip" is
\* the readable clip of the item's id, "corrupt" a file soundfile cannot read.
ImgPaths == {"frames", "missing", "named"}
AudioPaths == {"clip", "corrupt"}
Item(id, img, aud) == [audiotype |-> id, imgpath |-> img, audiopath |-> aud]
Items == {Item(id, img, aud) : id \in DOMAIN Clips, img \in ImgPaths, aud \in AudioPaths}

RECURSIVE ListsOf(_, _)
ListsOf(S, n) ==
  IF n = 0 THEN {<<>>}
  ELSE LET shorter == ListsOf(S, n - 1)
       IN shorter \cup {Append(l, x) : l \in {s \in shorter : Len(s) = n - 1}, x \in S}

\* --------------------------------------------------------------- Init
\* BaseReal.__init__ lines 91-96: the state and the empty tables
Unloaded ==
  /\ curr_state = 0
  /\ custom_img_cycle = <<>>
  /\ custom_audio_cycle = <<>>
  /\ custom_audio_index = <<>>
  /\ custom_index = <<>>
  /\ custom_opt = <<>>

\* the tables once __loadcustom (line 97) has loaded the two valid items 2 and 3
Loaded ==
  /\ curr_state = 0
  /\ custom_img_cycle = <<<<2, 2>>, <<3, 2>>>>
  /\ custom_audio_cycle = Clips
  /\ custom_audio_index = <<<<2, 0>>, <<3, 0>>>>
  /\ custom_index = <<<<2, 0>>, <<3, 0>>>>
  /\ custom_opt = <<<<2, Item(2, "frames", "clip")>>, <<3, Item(3, "frames", "clip")>>>>
  /\ customopt = <<Item(2, "frames", "clip"), Item(3, "frames", "clip")>>
  /\ nitem = 2

\* the renderer has not called mirror_index yet
NoPlay ==
  /\ play_index = 0
  /\ mirrored = <<>>

\* BaseASR.__init__ (lines 41-55)
Asr(strides, batches, par) ==
  /\ parent = par
  /\ queue = <<>>
  /\ output_queue = <<>>
  /\ feat_queue = <<>>
  /\ frames = <<>>
  /\ stride_left_size \in strides
  /\ stride_right_size \in strides
  /\ batch_size \in batches
  /\ pc = "start"
  /\ caller = "wu"
  /\ i = 0
  /\ frame = NoChunk
  /\ frame_type = -1
  /\ audiotype = -1
  /\ idx = 0
  /\ tmp = 0
  /\ cpc = "idle"
  /\ cmd = [op |-> "none", audiotype |-> 0, reinit |-> FALSE, todo |-> <<>>,
            fresh |-> FALSE, again |-> FALSE]
  /\ nput = 0
  /\ ncmd = 0
  /\ nstep = 0
  /\ call = NoCall
  /\ pulled = <<>>
  /\ rendered = <<>>
  /\ emitted = <<>>
  /\ run = NoRun

Constructed(strides, batches, par) ==
  /\ Loaded
  /\ Asr(strides, batches, par)
  /\ play_size = 1
  /\ NoPlay

Init == Constructed({1}, {1}, TRUE) /\ sched = "threads"
InitSerial == Constructed({1}, {1}, TRUE) /\ sched = "serial"
InitWin == Constructed(0..MaxStride, 1..MaxBatch, FALSE) /\ sched = "threads"
InitLoad ==
  /\ Unloaded
  /\ customopt \in ListsOf(Items, MaxItems)
  /\ nitem = 0
  /\ Asr({1}, {1}, TRUE)
  /\ play_size = 1
  /\ NoPlay
  /\ sched = "serial"
InitMirror ==
  /\ Loaded
  /\ Asr({1}, {1}, TRUE)
  /\ play_size \in 1..MaxSize
  /\ NoPlay
  /\ sched = "serial"

\* ------------------------------------------ BaseASR.get_audio_frame
\* a control-path write lands while a call of get_audio_frame is in flight
Disturb == IF InCall THEN [call EXCEPT !.disturbed = TRUE] ELSE call

\* line 78: queue.get(block=True, timeout=0.01).  Under the queue's mutex, get finds the
\* deque non-empty (and goes on to take its head) or, nothing having come within the
\* timeout, raises queue.Empty.
GafGet ==
  /\ pc = "gaf_get"
  /\ ProcMayStep
  /\ IF queue # <<>>
     THEN /\ pc' = "gaf_pop"
          /\ call' = call
     ELSE /\ pc' = "gaf_check"
          /\ call' = [call EXCEPT !.timeout = TRUE]
  /\ UNCHANGED <<shared, config, queue, output_queue, feat_queue, frames, caller, i, locals,
                 ctlv, nput, nstep, pulled, rendered,
                 emitted, run>>

\* mutant of GafPop: the chunk taken is tagged with the current state
GafPopTagsState ==
  /\ pc = "gaf_pop"
  /\ ProcMayStep
  /\ IF queue # <<>>
     THEN /\ frame' = Head(queue)
          /\ queue' = Tail(queue)
          /\ frame_type' = curr_state
          /\ pc' = "gaf_ret"
     ELSE /\ pc' = "crashed_get"
          /\ UNCHANGED <<frame, frame_type, queue>>
  /\ UNCHANGED <<shared, config, output_queue, feat_queue, frames, caller, i, audiotype,
                 idx, tmp, ctlv, nput, nstep, call, pulled, rendered,
                 emitted, run>>

\* lines 78-79: get takes the head of the deque (popleft) and the chunk is tagged 0.
\* pause_talk (line 59) clears the deque without taking the queue's mutex, so the
\* deque may have been emptied since get found it non-empty: popleft then raises
\* IndexError, which line 80 does not catch.
GafPop ==
  /\ pc = "gaf_pop"
  /\ ProcMayStep
  /\ IF queue # <<>>
     THEN /\ frame' = Head(queue)
          /\ queue' = Tail(queue)
          /\ frame_type' = 0
          /\ pc' = "gaf_ret"
     ELSE /\ pc' = "crashed_get"
          /\ UNCHANGED <<frame, frame_type, queue>>
  /\ UNCHANGED <<shared, config, output_queue, feat_queue, frames, caller, i, audiotype,
                 idx, tmp, ctlv, nput, nstep, call, pulled, rendered,
                 emitted, run>>

\* mutant of GafCheck: the silence branch also sets curr_state to 1
GafCheckEntersSilence ==
  /\ pc = "gaf_check"
  /\ ProcMayStep
  /\ call' = [call EXCEPT !.obs = IF parent THEN curr_state ELSE -1]
  /\ IF parent /\ curr_state > 1
     THEN /\ pc' = "gaf_arg"
          /\ UNCHANGED <<frame, frame_type>>
     ELSE /\ frame' = Zeros
          /\ frame_type' = 1
          /\ pc' = "gaf_ret"
  /\ curr_state' = IF parent /\ curr_state > 1 THEN curr_state ELSE 1
  /\ UNCHANGED <<custom_audio_index, custom_index, config, queue, output_queue, feat_queue, frames, caller, i,
                 audiotype, idx, tmp, ctlv, nput, nstep, pulled, rendered,
                 emitted, run>>

\* line 81 (the test) and lines 85-86 (the silence branch, which reads nothing shared)
GafCheck ==
  /\ pc = "gaf_check"
  /\ ProcMayStep
  /\ call' = [call EXCEPT !.obs = IF parent THEN curr_state ELSE -1]
  /\ IF parent /\ curr_state > 1
     THEN /\ pc' = "gaf_arg"
          /\ UNCHANGED <<frame, frame_type>>
     ELSE /\ frame' = Zeros
          /\ frame_type' = 1
          /\ pc' = "gaf_ret"
  /\ UNCHANGED <<shared, config, queue, output_queue, feat_queue, frames, caller, i,
                 audiotype, idx, tmp, ctlv, nput, nstep, pulled, rendered,
                 emitted, run>>

\* line 82: the argument self.parent.curr_state is read again
GafArg ==
  /\ pc = "gaf_arg"
  /\ ProcMayStep
  /\ audiotype' = curr_state
  /\ pc' = "gas_idx"
  /\ UNCHANGED <<shared, config, queue, output_queue, feat_queue, frames, caller, i,
                 frame, frame_type, idx, tmp, ctlv, nput, nstep, call, pulled, rendered,
                 emitted, run>>

\* ------------------------------------------ BaseReal.get_audio_stream
\* lines 158-159: a missing key raises KeyError, which nothing catches
GasIdx ==
  /\ pc = "gas_idx"
  /\ ProcMayStep
  /\ IF DictHas(custom_audio_index, audiotype) /\ audiotype \in DOMAIN custom_audio_cycle
     THEN /\ idx' = DictGet(custom_audio_index, audiotype)
          /\ frame' = [src |-> audiotype, from |-> idx',
                       len |-> SliceLen(custom_audio_cycle[audiotype], idx')]
          /\ pc' = "gas_inc_r"
     ELSE /\ pc' = "crashed"
          /\ UNCHANGED <<idx, frame>>
  /\ UNCHANGED <<shared, config, queue, output_queue, feat_queue, frames, caller, i,
                 frame_type, audiotype, tmp, ctlv, nput, nstep, call, pulled, rendered,
                 emitted, run>>

\* line 160, the read of custom_audio_index[audiotype] += chunk
GasIncR ==
  /\ pc = "gas_inc_r"
  /\ ProcMayStep
  /\ tmp' = DictGet(custom_audio_index, audiotype)
  /\ pc' = "gas_inc_w"
  /\ UNCHANGED <<shared, config, queue, output_queue, feat_queue, frames, caller, i,
                 frame, frame_type, audiotype, idx, ctlv, nput, nstep, call, pulled,
                 rendered,
                 emitted, run>>

\* mutant of GasIncW: a cursor that reaches the end of the clip wraps to 0
GasIncWWraps ==
  /\ pc = "gas_inc_w"
  /\ ProcMayStep
  /\ custom_audio_index' =
       DictSet(custom_audio_index, audiotype,
               IF tmp + chunk >= custom_audio_cycle[audiotype] THEN 0 ELSE tmp + chunk)
  /\ pc' = "gas_test"
  /\ UNCHANGED <<curr_state, custom_index, config, queue, output_queue, feat_queue,
                 frames, caller, i, frame, frame_type, audiotype, idx, tmp, ctlv, nput,
                 nstep, call, pulled, rendered,
                 emitted, run>>

\* line 160, the write
GasIncW ==
  /\ pc = "gas_inc_w"
  /\ ProcMayStep
  /\ custom_audio_index' = DictSet(custom_audio_index, audiotype, tmp + chunk)
  /\ pc' = "gas_test"
  /\ UNCHANGED <<curr_state, custom_index, config, queue, output_queue, feat_queue,
                 frames, caller, i, frame, frame_type, audiotype, idx, tmp, ctlv, nput,
                 nstep, call, pulled, rendered,
                 emitted, run>>

\* mutant of GasTest: the end of the clip is tested with > in place of >=
GasTestStrict ==
  /\ pc = "gas_test"
  /\ ProcMayStep
  /\ pc' = IF DictGet(custom_audio_index, audiotype) > custom_audio_cycle[audiotype]
           THEN "gas_sil" ELSE "gaf_tag"
  /\ UNCHANGED <<shared, config, queue, output_queue, feat_queue, frames, caller, i,
                 locals, ctlv, nput, nstep, call, pulled, rendered,
                 emitted, run>>

\* line 163
GasTest ==
  /\ pc = "gas_test"
  /\ ProcMayStep
  /\ pc' = IF DictGet(custom_audio_index, audiotype) >= custom_audio_cycle[audiotype]
           THEN "gas_sil" ELSE "gaf_tag"
  /\ UNCHANGED <<shared, config, queue, output_queue, feat_queue, frames, caller, i,
                 locals, ctlv, nput, nstep, call, pulled, rendered,
                 emitted, run>>

\* line 164
GasSil ==
  /\ pc = "gas_sil"
  /\ ProcMayStep
  /\ curr_state' = 1
  /\ pc' = "gaf_tag"
  /\ UNCHANGED <<custom_audio_index, custom_index, config, queue, output_queue,
                 feat_queue, frames, caller, i, locals, ctlv, nput, nstep, call, pulled,
                 rendered,
                 emitted, run>>

\* line 83: the tag is a third read of curr_state, after get_audio_stream returned
GafTag ==
  /\ pc = "gaf_tag"
  /\ ProcMayStep
  /\ frame_type' = curr_state
  /\ pc' = "gaf_ret"
  /\ run' = IF run.id # 0 THEN [run EXCEPT !.n = run.n + 1] ELSE run
  /\ UNCHANGED <<shared, config, queue, output_queue, feat_queue, frames, caller, i,
                 frame, audiotype, idx, tmp, ctlv, nput, nstep, call, pulled, rendered,
                 emitted>>

\* ------------------------------------------ BaseASR.warm_up
\* line 100, entering the loop (or leaving at once when both strides are 0)
WarmUp ==
  /\ pc = "start"
  /\ ProcMayStep
  /\ IF stride_left_size + stride_right_size > 0
     THEN /\ pc' = "gaf_get"
          /\ caller' = "wu"
     ELSE /\ pc' = "run"
          /\ caller' = "rs"
  /\ i' = 0
  /\ call' = NoCall
  /\ UNCHANGED <<shared, config, queue, output_queue, feat_queue, frames, locals, ctlv,
                 nput, nstep, pulled, rendered,
                 emitted, run>>

\* mutant of WuRet: output_queue has capacity 2 and a pair that finds it full is dropped
WuRetBounded ==
  /\ pc = "gaf_ret"
  /\ ProcMayStep
  /\ caller = "wu"
  /\ frames' = Append(frames, frame)
  /\ output_queue' = IF Len(output_queue) < 2
                    THEN Append(output_queue, <<frame, frame_type>>)
                    ELSE output_queue
  /\ pulled' = Append(pulled, <<frame, frame_type>>)
  /\ IF i + 1 < stride_left_size + stride_right_size
     THEN /\ pc' = "gaf_get"
          /\ i' = i + 1
          /\ caller' = caller
     ELSE /\ i' = 0
          /\ IF stride_left_size > 0
             THEN pc' = "wu_drain" /\ caller' = caller
             ELSE pc' = "run" /\ caller' = "rs"
  /\ call' = NoCall
  /\ cmd' = [cmd EXCEPT !.fresh = FALSE]
  /\ UNCHANGED <<shared, config, queue, feat_queue, locals, cpc, ncmd, nput, nstep,
                 rendered, emitted, run>>

\* mutant of WuRet: the pulled chunk is published but not appended to frames
WuRetNoAppend ==
  /\ pc = "gaf_ret"
  /\ ProcMayStep
  /\ caller = "wu"
  /\ frames' = frames
  /\ output_queue' = Append(output_queue, <<frame, frame_type>>)
  /\ pulled' = Append(pulled, <<frame, frame_type>>)
  /\ IF i + 1 < stride_left_size + stride_right_size
     THEN /\ pc' = "gaf_get"
          /\ i' = i + 1
          /\ caller' = caller
     ELSE /\ i' = 0
          /\ IF stride_left_size > 0
             THEN pc' = "wu_drain" /\ caller' = caller
             ELSE pc' = "run" /\ caller' = "rs"
  /\ call' = NoCall
  /\ cmd' = [cmd EXCEPT !.fresh = FALSE]
  /\ UNCHANGED <<shared, config, queue, feat_queue, locals, cpc, ncmd, nput, nstep,
                 rendered, emitted, run>>

\* line 88 and, in warm_up, lines 101-103: the pair is appended and published
WuRet ==
  /\ pc = "gaf_ret"
  /\ ProcMayStep
  /\ caller = "wu"
  /\ frames' = Append(frames, frame)
  /\ output_queue' = Append(output_queue, <<frame, frame_type>>)
  /\ pulled' = Append(pulled, <<frame, frame_type>>)
  /\ IF i + 1 < stride_left_size + stride_right_size
     THEN /\ pc' = "gaf_get"
          /\ i' = i + 1
          /\ caller' = caller
     ELSE /\ i' = 0
          /\ IF stride_left_size > 0
             THEN pc' = "wu_drain" /\ caller' = caller
             ELSE pc' = "run" /\ caller' = "rs"
  /\ call' = NoCall
  /\ cmd' = [cmd EXCEPT !.fresh = FALSE]
  /\ UNCHANGED <<shared, config, queue, feat_queue, locals, cpc, ncmd, nput, nstep,
                 rendered, emitted, run>>

\* mutant of WuDrain: the drain loop runs stride_right_size times
WuDrainRight ==
  /\ pc = "wu_drain"
  /\ ProcMayStep
  /\ output_queue # <<>>
  /\ output_queue' = Tail(output_queue)
  /\ i' = i + 1
  /\ IF i + 1 < stride_right_size
     THEN pc' = pc /\ caller' = caller
     ELSE pc' = "run" /\ caller' = "rs"
  /\ UNCHANGED <<shared, config, queue, feat_queue, frames, locals, ctlv, nput, nstep,
                 call, pulled, rendered,
                 emitted, run>>

\* lines 104-105: output_queue.get() blocks while the queue is empty
WuDrain ==
  /\ pc = "wu_drain"
  /\ ProcMayStep
  /\ output_queue # <<>>
  /\ output_queue' = Tail(output_queue)
  /\ i' = i + 1
  /\ IF i + 1 < stride_left_size
     THEN pc' = pc /\ caller' = caller
     ELSE pc' = "run" /\ caller' = "rs"
  /\ UNCHANGED <<shared, config, queue, feat_queue, frames, locals, ctlv, nput, nstep,
                 call, pulled, rendered,
                 emitted, run>>

WarmedUp == caller = "rs"

\* ------------------------------------------ BaseASR.run_step
\* The base class leaves run_step empty for its subclasses; the step modelled here is
\* the one spec.md section 4.2 describes: pull batch_size chunks, publish each, keep the
\* newest stride_left_size + stride_right_size + batch_size, emit the window.
WindowLen == stride_left_size + stride_right_size + batch_size

RunStep ==
  /\ pc = "run"
  /\ ProcMayStep
  /\ nstep < MaxSteps
  /\ nstep' = nstep + 1
  /\ pc' = "gaf_get"
  /\ i' = 0
  /\ call' = NoCall
  /\ UNCHANGED <<shared, config, queue, output_queue, feat_queue, frames, caller, locals,
                 ctlv, nput, pulled, rendered,
                 emitted, run>>

RsRet ==
  /\ pc = "gaf_ret"
  /\ ProcMayStep
  /\ caller = "rs"
  /\ frames' = Append(frames, frame)
  /\ output_queue' = Append(output_queue, <<frame, frame_type>>)
  /\ pulled' = Append(pulled, <<frame, frame_type>>)
  /\ IF i + 1 < batch_size
     THEN pc' = "gaf_get" /\ i' = i + 1
     ELSE pc' = "rs_emit" /\ i' = 0
  /\ call' = NoCall
  /\ cmd' = [cmd EXCEPT !.fresh = FALSE]
  /\ UNCHANGED <<shared, config, queue, feat_queue, caller, locals, cpc, ncmd, nput, nstep,
                 rendered, emitted, run>>

Newest(s, n) == IF Len(s) > n THEN SubSeq(s, Len(s) - n + 1, Len(s)) ELSE s

\* feat_queue.put blocks while the queue holds FeatCapacity windows (line 55)
RsEmit ==
  /\ pc = "rs_emit"
  /\ ProcMayStep
  /\ Len(feat_queue) < FeatCapacity
  /\ frames' = Newest(frames, WindowLen)
  /\ feat_queue' = Append(feat_queue, frames')
  /\ emitted' = Append(emitted, frames')
  /\ pc' = "run"
  /\ UNCHANGED <<shared, config, queue, output_queue, caller, i, locals, ctlv, nput,
                 nstep, call, pulled, rendered,
                 run>>

\* ------------------------------------------ BaseReal.set_curr_state
\* History: cmd.fresh marks a set_curr_state(id, reinit=True) of a registered id issued in
\* state 0, until the next call of get_audio_frame returns or another command is issued.
\* History: a playback is followed from the end of a command that leaves a registered
\* source current with its audio cursor at 0, the inbound queue empty and no call in flight.
Follow(state, index) ==
  IF /\ state \in DOMAIN custom_audio_cycle
     /\ DictHas(index, state)
     /\ DictGet(index, state) = 0
     /\ queue = <<>>
     /\ ~InCall
  THEN [id |-> state, n |-> 0]
  ELSE NoRun

\* line 176
SetCurrState(a, reinit) ==
  /\ cpc = "idle"
  /\ EnvMayStep
  /\ ncmd < MaxCmds
  /\ ncmd' = ncmd + 1
  /\ curr_state' = a
  /\ cmd' = [op |-> "set", audiotype |-> a, reinit |-> reinit, todo |-> <<>>,
             fresh |-> reinit /\ curr_state = 0 /\ a \in DOMAIN custom_audio_cycle,
             again |-> FALSE]
  /\ cpc' = IF reinit THEN "scs_audio" ELSE "idle"
  /\ run' = IF reinit THEN NoRun ELSE Follow(a, custom_audio_index)
  /\ call' = Disturb
  /\ UNCHANGED <<custom_audio_index, custom_index, config, queue, output_queue,
                 feat_queue, procv, locals, nput, rendered,
                 emitted>>

\* mutant of ScsAudio: every audio cursor is set to 0
ScsAudioAll ==
  /\ cpc = "scs_audio"
  /\ EnvMayStep
  /\ custom_audio_index' =
       [n \in 1..Len(DictSet(custom_audio_index, cmd.audiotype, 0)) |->
          <<DictSet(custom_audio_index, cmd.audiotype, 0)[n][1], 0>>]
  /\ cpc' = "scs_img"
  /\ run' = NoRun
  /\ call' = Disturb
  /\ UNCHANGED <<curr_state, custom_index, config, queue, output_queue, feat_queue,
                 procv, locals, cmd, ncmd, nput, rendered,
                 emitted>>

\* line 178
ScsAudio ==
  /\ cpc = "scs_audio"
  /\ EnvMayStep
  /\ custom_audio_index' = DictSet(custom_audio_index, cmd.audiotype, 0)
  /\ cpc' = "scs_img"
  /\ run' = NoRun
  /\ call' = Disturb
  /\ UNCHANGED <<curr_state, custom_index, config, queue, output_queue, feat_queue,
                 procv, locals, cmd, ncmd, nput, rendered,
                 emitted>>

\* line 179
ScsImg ==
  /\ cpc = "scs_img"
  /\ EnvMayStep
  /\ custom_index' = DictSet(custom_index, cmd.audiotype, 0)
  /\ cpc' = "idle"
  /\ run' = Follow(curr_state, custom_audio_index)
  /\ call' = Disturb
  /\ UNCHANGED <<curr_state, custom_audio_index, config, queue, output_queue,
                 feat_queue, procv, locals, cmd, ncmd, nput, rendered,
                 emitted>>

\* ------------------------------------------ BaseReal.init_customindex
\* History: cmd.again marks an init_customindex issued when the command before it was
\* an init_customindex too.
KeySeq(d) == [n \in 1..Len(d) |-> d[n][1]]

\* line 126
InitCustomindex ==
  /\ cpc = "idle"
  /\ EnvMayStep
  /\ ncmd < MaxCmds
  /\ ncmd' = ncmd + 1
  /\ curr_state' = 0
  /\ cmd' = [op |-> "reset", audiotype |-> 0, reinit |-> FALSE,
             todo |-> IF custom_audio_index # <<>> THEN KeySeq(custom_audio_index)
                      ELSE KeySeq(custom_index),
             fresh |-> FALSE, again |-> cmd.op = "reset"]
  /\ run' = NoRun
  /\ cpc' = IF custom_audio_index # <<>> THEN "ici_audio"
           ELSE IF custom_index # <<>> THEN "ici_img" ELSE "idle"
  /\ call' = Disturb
  /\ UNCHANGED <<custom_audio_index, custom_index, config, queue, output_queue,
                 feat_queue, procv, locals, nput, rendered,
                 emitted>>

\* mutant of IciAudio: the first loop stops after its first key
IciAudioFirstKey ==
  /\ cpc = "ici_audio"
  /\ EnvMayStep
  /\ custom_audio_index' = DictSet(custom_audio_index, Head(cmd.todo), 0)
  /\ run' = NoRun
  /\ cmd' = [cmd EXCEPT !.todo = KeySeq(custom_index)]
  /\ cpc' = IF custom_index # <<>> THEN "ici_img" ELSE "idle"
  /\ call' = Disturb
  /\ UNCHANGED <<curr_state, custom_index, config, queue, output_queue, feat_queue,
                 procv, locals, ncmd, nput, rendered,
                 emitted>>

\* lines 127-128, one key per step; after the last key the second loop starts
IciAudio ==
  /\ cpc = "ici_audio"
  /\ EnvMayStep
  /\ custom_audio_index' = DictSet(custom_audio_index, Head(cmd.todo), 0)
  /\ run' = NoRun
  /\ IF Tail(cmd.todo) # <<>>
     THEN /\ cmd' = [cmd EXCEPT !.todo = Tail(cmd.todo)]
          /\ cpc' = cpc
     ELSE /\ cmd' = [cmd EXCEPT !.todo = KeySeq(custom_index)]
          /\ cpc' = IF custom_index # <<>> THEN "ici_img" ELSE "idle"
  /\ call' = Disturb
  /\ UNCHANGED <<curr_state, custom_index, config, queue, output_queue, feat_queue,
                 procv, locals, ncmd, nput, rendered,
                 emitted>>

\* lines 129-130, one key per step
IciImg ==
  /\ cpc = "ici_img"
  /\ EnvMayStep
  /\ custom_index' = DictSet(custom_index, Head(cmd.todo), 0)
  /\ run' = NoRun
  /\ cmd' = [cmd EXCEPT !.todo = Tail(cmd.todo)]
  /\ cpc' = IF Tail(cmd.todo) # <<>> THEN cpc ELSE "idle"
  /\ call' = Disturb
  /\ UNCHANGED <<curr_state, custom_audio_index, config, queue, output_queue,
                 feat_queue, procv, locals, ncmd, nput, rendered,
                 emitted>>

\* ------------------------------------------ BaseASR queues
\* line 59
PauseTalk ==
  /\ cpc = "idle"
  /\ QueueMayStep
  /\ ncmd < MaxCmds
  /\ queue # <<>>
  /\ ncmd' = ncmd + 1
  /\ queue' = <<>>
  /\ UNCHANGED <<shared, config, output_queue, feat_queue, procv, locals, cpc, cmd, nput,
                 call, rendered,
                 emitted, run>>

\* line 67
PutAudioFrame ==
  /\ nput < MaxPuts
  /\ QueueMayStep
  /\ nput' = nput + 1
  /\ queue' = Append(queue, Pushed(nput + 1))
  /\ run' = NoRun
  /\ UNCHANGED <<shared, config, output_queue, feat_queue, procv, locals, ctlv, call,
                 rendered,
                 emitted>>

\* mutant of GetAudioOut: the pair is read but left on the queue
GetAudioOutPeek ==
  /\ WarmedUp
  /\ QueueMayStep
  /\ output_queue # <<>>
  /\ rendered' = Append(rendered, Head(output_queue))
  /\ output_queue' = output_queue
  /\ UNCHANGED <<shared, config, queue, feat_queue, procv, locals, ctlv, nput, call,
                 emitted, run>>

\* line 96; the renderer reads once warm_up has returned
GetAudioOut ==
  /\ WarmedUp
  /\ QueueMayStep
  /\ output_queue # <<>>
  /\ rendered' = Append(rendered, Head(output_queue))
  /\ output_queue' = Tail(output_queue)
  /\ UNCHANGED <<shared, config, queue, feat_queue, procv, locals, ctlv, nput, call,
                 emitted, run>>

\* line 121
GetNextFeat ==
  /\ feat_queue # <<>>
  /\ QueueMayStep
  /\ feat_queue' = Tail(feat_queue)
  /\ UNCHANGED <<shared, config, queue, output_queue, procv, locals, ctlv, nput, call,
                 rendered,
                 emitted, run>>

\* ------------------------------------------ BaseReal.__loadcustom
\* line 108: how many image files glob finds under imgpath (none if it does not exist)
Listed(imgpath) == IF imgpath = "missing" THEN 0 ELSE 2

\* lines 106-122, one item of opt.customopt per step.  Line 109 raises ValueError on a
\* file name that is no number, before anything is stored; line 113 raises when
\* soundfile cannot read the audio, after line 112 has stored the item's images.  The
\* handler of lines 121-122 prints the error and the loop goes on to the next item.
LoadCustom ==
  /\ nitem < Len(customopt)
  /\ nitem' = nitem + 1
  /\ LET item == customopt[nitem + 1]
         id == item.audiotype
     IN IF item.imgpath = "named"
        THEN UNCHANGED <<custom_img_cycle, custom_audio_cycle, custom_audio_index,
                         custom_index, custom_opt>>
        ELSE /\ custom_img_cycle' = DictSet(custom_img_cycle, id, Listed(item.imgpath))
             /\ IF item.audiopath = "corrupt"
                THEN UNCHANGED <<custom_audio_cycle, custom_audio_index, custom_index,
                                 custom_opt>>
                ELSE /\ custom_audio_cycle' = (id :> Clips[id]) @@ custom_audio_cycle
                     /\ custom_audio_index' = DictSet(custom_audio_index, id, 0)
                     /\ custom_index' = DictSet(custom_index, id, 0)
                     /\ custom_opt' = DictSet(custom_opt, id, item)
  /\ UNCHANGED <<parent, curr_state, customopt, mirror, queue, output_queue, feat_queue,
                 frames, stride_left_size, stride_right_size, batch_size, procv, locals,
                 ctlv, nput, call, rendered, emitted, run, sched>>

\* ------------------------------------------ BaseReal.mirror_index
\* mutant of mirror_index: the odd turns return size - res
mirror_index_off_by_one(size, index) ==
  LET turn == index \div size
      res == index % size
  IN IF turn % 2 = 0 THEN res ELSE size - res

\* lines 142-147
mirror_index(size, index) ==
  LET turn == index \div size
      res == index % size
  IN IF turn % 2 = 0 THEN res ELSE size - res - 1

\* the renderer asks for the image of play index 0, 1, 2, ... of a sequence of
\* play_size images
MirrorNext ==
  /\ play_index <= MaxIndex
  /\ mirrored' = Append(mirrored, mirror_index(play_size, play_index))
  /\ play_index' = play_index + 1
  /\ UNCHANGED <<parent, shared, custom_audio_cycle, assets, play_size, queue, output_queue,
                 feat_queue, frames, stride_left_size, stride_right_size, batch_size,
                 procv, locals, ctlv, nput, call, rendered, emitted, run, sched>>

\* ------------------------------------------------------------- Next
\* BaseASR on its own: the processing path and the queues
NextAsr ==
  \/ WarmUp \/ WuRet \/ WuDrain \/ RunStep \/ RsRet \/ RsEmit
  \/ GafGet \/ GafPop \/ GafCheck
  \/ PauseTalk \/ PutAudioFrame \/ GetAudioOut \/ GetNextFeat

\* what a BaseReal parent adds: custom chunk retrieval and the control path
NextReal ==
  \/ GafArg \/ GafTag
  \/ GasIdx \/ GasIncR \/ GasIncW \/ GasTest \/ GasSil
  \/ \E a \in AudioTypes, reinit \in BOOLEAN : SetCurrState(a, reinit)
  \/ ScsAudio \/ ScsImg
  \/ InitCustomindex \/ IciAudio \/ IciImg

Next == NextAsr \/ NextReal

Spec == Init /\ [][Next]_vars
SpecSerial == InitSerial /\ [][Next]_vars
SpecWin == InitWin /\ [][NextAsr]_vars
SpecLoad == InitLoad /\ [][LoadCustom]_vars
SpecMirror == InitMirror /\ [][MirrorNext]_vars

\* ============================================================= claims
Returned == pc = "gaf_ret"
TimedOut == Returned /\ call.timeout
Ceil(a, b) == (a + b - 1) \div b

\* C1: every call of get_audio_frame that times out while the state is a custom id
\* returns the next slice of that source tagged with that id, the call that retrieves
\* the last chunk included; a call that times out in a non-custom state returns the
\* zero chunk tagged 1.
C1_TimeoutTagsCustom ==
  TimedOut =>
    IF call.obs > 1
    THEN frame.src = call.obs /\ frame.from = idx /\ frame_type = call.obs
    ELSE frame = Zeros /\ frame_type = 1

\* C2: the audio cursor of every registered source is at most the length of its clip.
C2_CursorWithinClip ==
  \A k \in DOMAIN custom_audio_cycle :
    DictHas(custom_audio_index, k) => DictGet(custom_audio_index, k) <= custom_audio_cycle[k]

\* C3: a playback of source id followed from cursor 0, with the inbound queue empty and
\* no command issued, keeps the state at id for its first ceil(L/chunk) - 1 retrievals
\* and has it at Silence (1) from retrieval ceil(L/chunk) on, which is also its last.
BetweenRetrievals ==
  pc \notin {"gas_idx", "gas_inc_r", "gas_inc_w", "gas_test", "gas_sil", "gaf_tag"}

C3_ExhaustionAtCeil ==
  (run.id # 0 /\ BetweenRetrievals) =>
    LET need == Ceil(custom_audio_cycle[run.id], chunk) IN
      /\ run.n <= need
      /\ run.n < need => curr_state = run.id
      /\ run.n = need => curr_state = 1

C3_Witness ==
  /\ run.id = 2 /\ run.n = 2 /\ Returned
  /\ curr_state = 1
  /\ Len(pulled) >= 1 /\ pulled[Len(pulled)] = <<[src |-> 2, from |-> 0, len |-> chunk], 2>>

\* C4: every chunk get_audio_frame returns after a timeout has exactly chunk samples,
\* the last chunk of a clip whose length is no multiple of chunk included.
C4_FallbackChunkLength ==
  TimedOut => frame.len = chunk

\* C5 as claimed: a call that timed out in state Inference (0) leaves the shared state
\* at Silence (1).
C5_TimeoutEntersSilence ==
  (TimedOut /\ call.obs = 0) => curr_state = 1

\* C5 as amended: a call that timed out in state Inference (0) returns the zero chunk
\* tagged 1 and leaves the shared state at Inference (0).
C5_TimeoutKeepsInference ==
  (TimedOut /\ call.obs = 0 /\ ~call.disturbed) =>
    /\ curr_state = 0
    /\ frame = Zeros
    /\ frame_type = 1

C5_Witness ==
  /\ TimedOut /\ call.obs = 0 /\ ~call.disturbed
  /\ ncmd > 0

\* C6: set_curr_state never accepts an id that is neither 0, 1 nor a registered source:
\* the state never becomes such an id and no cursor entry is created for one.
C6_UnknownIdRejected ==
  /\ curr_state \in {0, 1} \cup DOMAIN custom_audio_cycle
  /\ \A k \in DictKeys(custom_audio_index) \cup DictKeys(custom_index) :
       k > 1 => k \in DOMAIN custom_audio_cycle

\* C7: under any interleaving a read sees one consistent (state, cursors) snapshot:
\* get_audio_stream is never entered with state 0 or 1, and a returned chunk taken from
\* a custom source carries that source's id as its tag.
C7_ConsistentSnapshot ==
  /\ pc \in {"gas_idx", "gas_inc_r", "gas_inc_w", "gas_test", "gas_sil"} => audiotype > 1
  /\ (Returned /\ frame.src > 1) => frame_type = frame.src

Chunks(pairs) == [k \in 1..Len(pairs) |-> pairs[k][1]]
WarmUpReturned == pc = "run" /\ nstep = 0 /\ rendered = <<>>

\* C9: when warm_up returns it has pulled stride_left_size + stride_right_size chunks,
\* frames holds them in pull order and output_queue holds the last stride_right_size
\* pulled pairs in pull order.
C9_WarmUpEffect ==
  WarmUpReturned =>
    /\ Len(pulled) = stride_left_size + stride_right_size
    /\ frames = Chunks(pulled)
    /\ output_queue = SubSeq(pulled, stride_left_size + 1, Len(pulled))
    /\ Len(output_queue) = stride_right_size

C9_Witness ==
  /\ WarmUpReturned
  /\ stride_left_size = 2 /\ stride_right_size = 1
  /\ pulled[3][2] = 0 /\ pulled[1][2] = 1

Outbound == rendered \o output_queue
\* how many pairs warm_up has taken off output_queue (lines 104-105)
Drained ==
  IF WarmedUp THEN stride_left_size ELSE IF pc = "wu_drain" THEN i ELSE 0
Count(s, x) == Cardinality({n \in 1..Len(s) : s[n] = x})

PauseTalkStep == ncmd' = ncmd + 1 /\ queue' # queue

\* C12: pause_talk leaves the inbound queue empty and changes nothing else (state,
\* cursors, frames, output_queue, and the locals and position of a call of
\* get_audio_frame in flight), and a call of get_audio_frame that pause_talk runs
\* into still returns its pair: it never fails on the queue.
C12_DiscardPendingOnlyClears ==
  /\ [][PauseTalkStep =>
         /\ queue' = <<>>
         /\ UNCHANGED <<shared, frames, output_queue, feat_queue, locals, pc, caller, i,
                        pulled>>]_vars
  /\ [](pc # "crashed_get")

\* the tables that hold an entry for id: images, audio, audio cursor, image cursor, options
Tables(id) ==
  <<DictHas(custom_img_cycle, id), id \in DOMAIN custom_audio_cycle,
    DictHas(custom_audio_index, id), DictHas(custom_index, id), DictHas(custom_opt, id)>>
InAll(id) == \A n \in 1..5 : Tables(id)[n]
InNone(id) == \A n \in 1..5 : ~Tables(id)[n]
\* the items whose load the claim counts as failed
LoadFails(item) == item.imgpath # "frames" \/ item.audiopath # "clip"
LoadDone == nitem = Len(customopt)
ItemsOf(id) == {customopt[n] : n \in {k \in 1..Len(customopt) : customopt[k].audiotype = id}}

\* C13: once __loadcustom has been through the list, every id is in all five tables or
\* in none; an id with an item that loads is in all of them with both cursors at 0; an
\* id whose items all fail to load (missing image directory, unreadable audio) is in
\* none.
C13_FailedLoadLeavesNoTrace ==
  LoadDone =>
    \A id \in DOMAIN Clips :
      /\ InAll(id) \/ InNone(id)
      /\ (\E item \in ItemsOf(id) : ~LoadFails(item)) =>
           /\ InAll(id)
           /\ DictGet(custom_audio_index, id) = 0
           /\ DictGet(custom_index, id) = 0
      /\ (\A item \in ItemsOf(id) : LoadFails(item)) => InNone(id)

\* the state is Inference and every audio and image cursor is 0
Zeroed ==
  /\ curr_state = 0
  /\ \A n \in 1..Len(custom_audio_index) : custom_audio_index[n][2] = 0
  /\ \A n \in 1..Len(custom_index) : custom_index[n][2] = 0

\* C14: once init_customindex has returned, the state is Inference (0) and every audio
\* and image cursor is 0; an init_customindex that follows another changes nothing at
\* any of its steps, so two in a row leave the state one leaves.
C14_ResetYieldsInference ==
  /\ (cmd.op = "reset" /\ cpc = "idle") => Zeroed
  /\ (cmd.op = "reset" /\ cmd.again) => Zeroed

C14_Witness ==
  /\ cmd.op = "reset" /\ cpc = "idle" /\ ncmd = 2
  /\ \E k \in 1..Len(pulled) : pulled[k] = <<[src |-> 3, from |-> 0, len |-> chunk], 1>>
  /\ Zeroed

\* C15: the first call of get_audio_frame to return after set_curr_state(id, True) was
\* issued for a registered id in state Inference (0) returns the slice of clip id that
\* starts at cursor 0, tagged id, whatever the inbound queue holds and however long
\* the clip is.
C15_SetThenNextChunk ==
  (Returned /\ cmd.fresh) =>
    /\ frame.src = cmd.audiotype
    /\ frame.from = 0
    /\ frame_type = cmd.audiotype

Abs(x) == IF x < 0 THEN -x ELSE x

\* C16: for size > 0 and index >= 0, mirror_index(size, index) is in 0..size-1; over
\* index 0, 1, 2, ... it runs 0..size-1 up, then size-1..0 down, and repeats with
\* period 2*size: index % size on even turns, size - 1 - index % size on odd turns;
\* consecutive values differ by at most 1.
C16_PingPongRamp ==
  \A n \in 1..Len(mirrored) :
    LET at == n - 1
        v == mirrored[n]
    IN /\ v \in 0..(play_size - 1)
       /\ v = IF (at \div play_size) % 2 = 0
              THEN at % play_size
              ELSE play_size - 1 - (at % play_size)
       /\ at < play_size => v = at
       /\ (play_size <= at /\ at < 2 * play_size) => v = 2 * play_size - 1 - at
       /\ n > 2 * play_size => v = mirrored[n - 2 * play_size]
       /\ n > 1 => Abs(v - mirrored[n - 1]) <= 1

C16_Witness ==
  /\ play_size = 3
  /\ Len(mirrored) >= 9
  /\ SubSeq(mirrored, 1, 9) = <<0, 1, 2, 2, 1, 0, 0, 1, 2>>

\* a step of line 176: the one command that writes cmd.op = "set"
SetStep == ncmd' = ncmd + 1 /\ queue' = queue /\ cmd'.op = "set"
Registered(id) == id \in DOMAIN custom_audio_cycle
\* d with the cursor of id set to 0: the same keys in the same order, every other
\* cursor as it was
Rewound(d, id) ==
  [n \in 1..Len(d) |-> IF d[n][1] = id THEN <<id, 0>> ELSE d[n]]

\* C17: set_curr_state(id, reinit) for a registered id writes id to curr_state and no
\* cursor (line 176); with reinit it then sets the audio cursor of id to 0 (line 178)
\* and the image cursor of id to 0 (line 179), each step leaving every other cursor and
\* the keys of both tables as they were; without reinit it does nothing more.
C17_SetStateEffect ==
  [][/\ (SetStep /\ Registered(cmd'.audiotype)) =>
          /\ curr_state' = cmd'.audiotype
          /\ UNCHANGED <<custom_audio_index, custom_index>>
          /\ (cpc' = "idle") = ~cmd'.reinit
     /\ (cpc = "scs_audio" /\ Registered(cmd.audiotype)) =>
          /\ cmd.reinit
          /\ custom_audio_index' = Rewound(custom_audio_index, cmd.audiotype)
          /\ UNCHANGED <<curr_state, custom_index>>
     /\ (cpc = "scs_img" /\ Registered(cmd.audiotype)) =>
          /\ custom_index' = Rewound(custom_index, cmd.audiotype)
          /\ cpc' = "idle"
          /\ UNCHANGED <<curr_state, custom_audio_index>>]_vars

C17_Witness ==
  /\ cmd.op = "set" /\ cmd.reinit /\ cmd.audiotype = 2 /\ cpc = "idle" /\ ncmd = 2
  /\ curr_state = 2
  /\ Len(pulled) = 2
  /\ pulled[1] = <<[src |-> 2, from |-> 0, len |-> chunk], 2>>
  /\ pulled[2][1].src = 2
  /\ custom_audio_index = <<<<2, 0>>, <<3, 0>>>>

\* C18: a call of get_audio_frame that finds the inbound queue non-empty does not time
\* out: it takes the oldest queued chunk, tags it 0 and leaves curr_state and every
\* cursor as they were, also when curr_state is a custom id; an audio cursor moves
\* during a call only if the call timed out.
C18_QueuedChunkPreempts ==
  [][/\ (pc = "gaf_get" /\ queue # <<>> /\ pc' # pc) =>
          /\ pc' = "gaf_pop"
          /\ ~call'.timeout
          /\ UNCHANGED <<shared, queue>>
     /\ (pc = "gaf_pop" /\ pc' # pc) =>
          /\ pc' = "gaf_ret"
          /\ frame' = Head(queue)
          /\ queue' = Tail(queue)
          /\ frame_type' = 0
          /\ UNCHANGED shared
     /\ (InCall /\ custom_audio_index' # custom_audio_index) => call.timeout]_vars

C18_Witness ==
  /\ Returned /\ ~call.timeout
  /\ curr_state = 2
  /\ frame = Pushed(1) /\ frame_type = 0
  /\ custom_audio_index = <<<<2, 0>>, <<3, 0>>>>

\* C19: when a retrieval of source i and a command issued while it was in flight,
\* set_curr_state(j, ...) with j # i or init_customindex, have both completed, the
\* state is the one the command set (j, or 0): the exhaustion of source i has not
\* overwritten it with Silence (1).
C19_ExhaustionKeepsCommand ==
  (/\ Returned /\ frame.src > 1 /\ call.disturbed
   /\ cpc = "idle"
   /\ \/ cmd.op = "reset"
      \/ cmd.op = "set" /\ cmd.audiotype # frame.src)
  => curr_state = IF cmd.op = "set" THEN cmd.audiotype ELSE 0

\* C20: an audio cursor goes down only at a step of set_curr_state(id, True) or of
\* init_customindex, which sets it to 0; a custom chunk that get_audio_frame returns
\* starts at the cursor and leaves the cursor one chunk further, past its last sample;
\* a slice taken at or beyond the end of the clip has no sample, so nothing of an
\* exhausted clip is returned until its cursor is reset.
C20_NoImplicitReplay ==
  /\ [][\A n \in 1..Len(custom_audio_index) :
          custom_audio_index'[n][2] < custom_audio_index[n][2] =>
            /\ cpc \in {"scs_audio", "ici_audio"}
            /\ custom_audio_index'[n] = <<custom_audio_index[n][1], 0>>]_vars
  /\ []((Returned /\ frame.src > 1) =>
          /\ DictGet(custom_audio_index, frame.src) = frame.from + chunk
          /\ frame.len <= chunk
          /\ frame.from + frame.len <= Max(frame.from, custom_audio_cycle[frame.src])
          /\ frame.from >= custom_audio_cycle[frame.src] => frame.len = 0)

C20_Witness ==
  /\ Returned /\ ncmd = 2
  /\ cmd.op = "set" /\ cmd.audiotype = 3 /\ ~cmd.reinit
  /\ frame = [src |-> 3, from |-> chunk, len |-> 0]
  /\ pulled # <<>> /\ pulled[1] = <<[src |-> 3, from |-> 0, len |-> chunk], 1>>

====
